---- MODULE Spec2Model ----
(***************************************************************************)
(* Model of the launcher <-> game handshake of ff78-launcher-rs.           *)
(*                                                                         *)
(* Three threads of control: the driver (launch_process in main.rs), the   *)
(* listener (handle_game_messages_thread in main.rs) and the external game *)
(* process.  The driver writes messages (the send functions of            *)
(* launcher.rs) into the                                                   *)
(* shared mapping and performs wait_for_game after each write.             *)
(*                                                                         *)
(* Strings are sequences of Unicode scalar values; wide strings are        *)
(* sequences of UTF-16 code units; buffers are sequences of bytes.         *)
(***************************************************************************)
EXTENDS Integers, Sequences, FiniteSets, TLC

VARIABLES
    game_to_launch,   \* ctx.game_to_launch: "FF7Standard" | "FF7EStore" | "FF8"
    game_lang,        \* ctx.game_lang
    pause_game_on_background,  \* ctx.config.pause_game_on_background
    pc,               \* position of the driver in launch_process
    step,             \* index (1..8) of the send call the driver is at
    bytes,            \* the local buffer of the send call in progress
    text,             \* the string that the send call in progress encodes
    mem,              \* bytes of the mapping from launcher_memory_part on
    gcan,             \* count of <prefix>_gameCanReadMsgSem
    gdid,             \* count of <prefix>_gameDidReadMsgSem
    lcan,             \* count of <prefix>_launcherCanReadMsgSem
    ldid,             \* count of <prefix>_launcherDidReadMsgSem
    handles,          \* OS handles currently open in the launcher process
    chan,             \* messages queued in the thread_kill channel
    tx_alive,         \* thread_kill_tx not yet dropped
    lpc,              \* position of the listener thread
    gpc,              \* position of the game's reader
    delivered,        \* field ids the game has read, in order
    notified,         \* number of launcherCanRead releases the game has made
    answered,         \* number of launcherDidRead releases the listener made
    awaiting,         \* the game waits for did-read before it reads on
    closed,           \* per handle, how many times it has been released
    log,              \* history of the driver: writes, releases, returns
    sess,             \* two launcher sessions on one machine: their positions
    named,            \* the named kernel objects those sessions have created
    cap,              \* a copy into the mapping, by offsets and lengths
    save_call,        \* one resolution of the save directory: inputs, result
    crash,            \* the unhandled-exception filter and HAD_EXCEPTION
    branch            \* launch_process with the choice of its branch

vars == <<game_to_launch, game_lang, pause_game_on_background, pc, step, bytes,
          text, mem, gcan, gdid, lcan, ldid, handles, chan, tx_alive, lpc, gpc,
          delivered, notified, answered, awaiting, closed, log, sess, named,
          cap, save_call, crash, branch>>

\* the variables the session of launch_process leaves alone
otherVars == <<sess, named, cap, save_call, crash, branch>>

\* the variables of the one session of launch_process
sessionVars == <<game_to_launch, game_lang, pause_game_on_background, pc, step,
                 bytes, text, mem, gcan, gdid, lcan, ldid, handles, chan,
                 tx_alive, lpc, gpc, delivered, notified, answered, awaiting,
                 closed, log>>

-----------------------------------------------------------------------------
(* Bounds of the model *)

\* how many times the game releases launcherCanReadMsgSem in one session
MaxGameMsgs == 1

\* how many invocations of exception_handler one thread can have open, one
\* inside the other
MaxNesting == 2

-----------------------------------------------------------------------------
(* Field ids, launcher.rs:14-36 *)

FF7_USER_SAVE_DIR == 10
FF7_DOC_DIR == 11
FF7_INSTALL_DIR == 12
FF7_LOCALE_DATA_DIR == 13
FF7_GAME_VERSION == 18
FF7_DISABLE_CLOUD == 22
FF7_END_USER_INFO == 24

FF8_USER_SAVE_DIR == 9
FF8_DOC_DIR == 10
FF8_INSTALL_DIR == 11
FF8_LOCALE_DATA_DIR == 12
FF8_GAME_VERSION == 17
FF8_DISABLE_CLOUD == 21
FF8_BG_PAUSE_ENABLED == 23
FF8_END_USER_INFO == 24

ESTORE_USER_SAVE_DIR == 9
ESTORE_DOC_DIR == 10
ESTORE_INSTALL_DIR == 11
ESTORE_LOCALE_DATA_DIR == 12
ESTORE_GAME_VERSION == 17
ESTORE_END_USER_INFO == 20

GameTypes == {"FF7Standard", "FF7EStore", "FF8"}

-----------------------------------------------------------------------------
(* String literals of the source, as sequences of scalar values *)

\* "lang-"
LangTag == <<108, 97, 110, 103, 45>>
\* APP_NAME = "FF78Launcher"
APP_NAME == <<70, 70, 55, 56, 76, 97, 117, 110, 99, 104, 101, 114>>
\* " 1.0.0"
VersionSuffix == <<32, 49, 46, 48, 46, 48>>
\* "\\save"
SaveSuffix == <<92, 115, 97, 118, 101>>
\* "\\"
Backslash == <<92>>
\* "user_"
UserPrefix == <<117, 115, 101, 114, 95>>
\* "\\Square Enix\\FINAL FANTASY "
SquareEnixDir == <<92, 83, 113, 117, 97, 114, 101, 32, 69, 110, 105, 120, 92,
                   70, 73, 78, 65, 76, 32, 70, 65, 78, 84, 65, 83, 89, 32>>
\* "VII Steam"
SteamVII == <<86, 73, 73, 32, 83, 116, 101, 97, 109>>
\* "VIII Steam"
SteamVIII == <<86, 73, 73, 73, 32, 83, 116, 101, 97, 109>>

-----------------------------------------------------------------------------
(* Encodings *)

\* u32::to_le_bytes
U32LE(n) == <<n % 256, (n \div 256) % 256, (n \div 65536) % 256,
              (n \div 16777216) % 256>>

\* u32::from_le_bytes
FromU32LE(b) == b[1] + 256 * b[2] + 65536 * b[3] + 16777216 * b[4]

\* `x as u32` of a usize: the low 32 bits, as two 16-bit halves
AsU32(n) == (n % 65536) + 65536 * ((n \div 65536) % 65536)

IsHighSurrogate(u) == u >= 55296 /\ u <= 56319
IsLowSurrogate(u) == u >= 56320 /\ u <= 57343

\* char::encode_utf16: one unit for the BMP, a surrogate pair above it
EncodeChar(c) ==
    IF c < 65536 THEN <<c>>
    ELSE <<55296 + ((c - 65536) \div 1024), 56320 + ((c - 65536) % 1024)>>

\* str::encode_utf16().collect::<Vec<u16>>()
RECURSIVE encode_utf16(_)
encode_utf16(s) ==
    IF s = <<>> THEN <<>> ELSE EncodeChar(Head(s)) \o encode_utf16(Tail(s))

\* payload.iter().flat_map(|b| b.to_le_bytes()).collect()
RECURSIVE flat_le_bytes(_)
flat_le_bytes(units) ==
    IF units = <<>> THEN <<>>
    ELSE <<Head(units) % 256, Head(units) \div 256>> \o flat_le_bytes(Tail(units))

\* a wide string without unpaired surrogates
RECURSIVE WellFormed(_)
WellFormed(w) ==
    IF w = <<>> THEN TRUE
    ELSE IF IsHighSurrogate(w[1])
         THEN Len(w) >= 2 /\ IsLowSurrogate(w[2]) /\ WellFormed(SubSeq(w, 3, Len(w)))
         ELSE ~IsLowSurrogate(w[1]) /\ WellFormed(Tail(w))

\* the scalar values of a well-formed wide string (OsStr::to_str, Some case)
RECURSIVE decode_utf16(_)
decode_utf16(w) ==
    IF w = <<>> THEN <<>>
    ELSE IF IsHighSurrogate(w[1]) /\ Len(w) >= 2
         THEN <<65536 + (w[1] - 55296) * 1024 + (w[2] - 56320)>>
              \o decode_utf16(SubSeq(w, 3, Len(w)))
         ELSE <<w[1]>> \o decode_utf16(Tail(w))

\* str::starts_with
StartsWith(s, p) == Len(s) >= Len(p) /\ SubSeq(s, 1, Len(p)) = p

\* a copy that is one byte short
ptr_copy_short(dst, src) ==
    [i \in 1..(IF Len(src) - 1 > Len(dst) THEN Len(src) - 1 ELSE Len(dst)) |->
        IF i <= Len(src) - 1 THEN src[i] ELSE dst[i]]

\* std::ptr::copy(src, dst, src.len()): the first Len(src) bytes of the
\* destination are replaced, the bytes after them are kept
ptr_copy(dst, src) ==
    [i \in 1..(IF Len(src) > Len(dst) THEN Len(src) ELSE Len(dst)) |->
        IF i <= Len(src) THEN src[i] ELSE dst[i]]

-----------------------------------------------------------------------------
(* Results of fallible calls: Ok(val) or Err *)

Ok(v) == [ok |-> TRUE, val |-> v]
Err == [ok |-> FALSE, val |-> <<>>]

-----------------------------------------------------------------------------
(* What the environment can answer to the driver's queries *)

\* game_lang is the part of the executable's name between '_' and ".exe"
\* (main.rs:144-148): "en", "ja"
Langs == {<<101, 110>>, <<106, 97>>}

\* SHGetKnownFolderPath(FOLDERID_Documents).to_string(): a path with a
\* scalar value above the BMP and one inside it, or an error
DocPathResults == {Err, Ok(<<68, 128512, 12354>>)}

\* the current directory as a wide string: "C:", or a name holding an
\* unpaired surrogate (legal in a Windows file name), or an error
CurrentDirResults == {Err, Ok(<<67, 58>>), Ok(<<67, 55296>>)}

\* std::fs::read_dir(path): the entries (lossy name, is_dir), or an error
\* "user_1", "user_2"
DirListings ==
    { <<>>,
      << [name |-> UserPrefix \o <<49>>, is_dir |-> TRUE],
         [name |-> UserPrefix \o <<50>>, is_dir |-> FALSE] >> }
ReadDirResults == {Err} \cup {Ok(l) : l \in DirListings}

-----------------------------------------------------------------------------
(* launcher.rs *)

\* get_game_metadata_path, launcher.rs:338-363.  music2 is
\* std::fs::exists("data/music_2").is_ok_and(|b| b); doc is the answer of
\* SHGetKnownFolderPath; cwd the answer of std::env::current_dir().
get_game_metadata_path(gt, music2, doc, cwd) ==
    IF gt # "FF7EStore" /\ ~music2
    THEN IF ~doc.ok THEN Err
         ELSE Ok(doc.val \o SquareEnixDir
                 \o (IF gt = "FF8" THEN SteamVIII ELSE SteamVII))
    ELSE IF ~cwd.ok THEN Err
         ELSE IF ~WellFormed(cwd.val) THEN Err   \* to_str() is None
         ELSE Ok(decode_utf16(cwd.val))

\* the directories named "user_..." of a listing, launcher.rs:76-85
RECURSIVE LastUserDir(_)
LastUserDir(entries) ==
    IF entries = <<>> THEN Err
    ELSE LET e == entries[Len(entries)] IN
         IF e.is_dir /\ StartsWith(e.name, UserPrefix) THEN Ok(e.name)
         ELSE LastUserDir(SubSeq(entries, 1, Len(entries) - 1))

\* the payload string with the listing consulted before the local "save"
user_save_payload_UserFirst(meta, save_exists, listing) ==
    IF ~meta.ok THEN Err
    ELSE IF ~listing.ok THEN Err
    ELSE LET user_path == LastUserDir(listing.val) IN
         IF user_path.ok THEN Ok(meta.val \o Backslash \o user_path.val)
         ELSE IF save_exists THEN Ok(meta.val \o SaveSuffix)
         ELSE Ok(meta.val)

\* the payload string of send_user_save_dir, launcher.rs:71-94
user_save_payload(meta, save_exists, listing) ==
    IF ~meta.ok THEN Err
    ELSE IF save_exists THEN Ok(meta.val \o SaveSuffix)
    ELSE IF ~listing.ok THEN Err
    ELSE LET user_path == LastUserDir(listing.val) IN
         IF user_path.ok THEN Ok(meta.val \o Backslash \o user_path.val)
         ELSE Ok(meta.val)

\* the match on ctx.game_to_launch of each send function
LocaleFieldId(gt) ==
    CASE gt = "FF7Standard" -> FF7_LOCALE_DATA_DIR
      [] gt = "FF7EStore" -> ESTORE_LOCALE_DATA_DIR
      [] gt = "FF8" -> FF8_LOCALE_DATA_DIR

SaveFieldId(gt) ==
    CASE gt = "FF7Standard" -> FF7_USER_SAVE_DIR
      [] gt = "FF7EStore" -> ESTORE_USER_SAVE_DIR
      [] gt = "FF8" -> FF8_USER_SAVE_DIR

DocFieldId(gt) ==
    CASE gt = "FF7Standard" -> FF7_DOC_DIR
      [] gt = "FF7EStore" -> ESTORE_DOC_DIR
      [] gt = "FF8" -> FF8_DOC_DIR

InstallFieldId(gt) ==
    CASE gt = "FF7Standard" -> FF7_INSTALL_DIR
      [] gt = "FF7EStore" -> ESTORE_INSTALL_DIR
      [] gt = "FF8" -> FF8_INSTALL_DIR

VersionFieldId(gt) ==
    CASE gt = "FF7Standard" -> FF7_GAME_VERSION
      [] gt = "FF7EStore" -> ESTORE_GAME_VERSION
      [] gt = "FF8" -> FF8_GAME_VERSION

CloudFieldId(gt) ==
    CASE gt \in {"FF7Standard", "FF7EStore"} -> FF7_DISABLE_CLOUD
      [] gt = "FF8" -> FF8_DISABLE_CLOUD

\* the completion marker of the standard edition sent to every FF7
CompletedFieldId_AllFF7(gt) ==
    CASE gt \in {"FF7Standard", "FF7EStore"} -> FF7_END_USER_INFO
      [] gt = "FF8" -> FF8_END_USER_INFO

CompletedFieldId(gt) ==
    CASE gt = "FF7Standard" -> FF7_END_USER_INFO
      [] gt = "FF7EStore" -> ESTORE_END_USER_INFO
      [] gt = "FF8" -> FF8_END_USER_INFO

\* a length field that counts bytes instead of u16 units
PayloadLenField_InBytes(payload) == U32LE(AsU32(2 * Len(payload)))

\* bytes.extend_from_slice(&(payload.len() as u32).to_le_bytes())
PayloadLenField(payload) == U32LE(AsU32(Len(payload)))

\* field id, length field and payload of a text message
TextHeaderAndPayload(id, payload) ==
    U32LE(id) \o PayloadLenField(payload) \o flat_le_bytes(payload)

\* send_locale_data_dir, launcher.rs:39-52
locale_bytes(gt, lang) ==
    TextHeaderAndPayload(LocaleFieldId(gt), encode_utf16(LangTag \o lang))

\* send_user_save_dir, launcher.rs:95-107
save_bytes(gt, path) ==
    TextHeaderAndPayload(SaveFieldId(gt), encode_utf16(path))

\* send_user_doc_dir without its bytes.push(0)
doc_bytes_NoPush(gt, path) ==
    TextHeaderAndPayload(DocFieldId(gt), encode_utf16(path))

\* send_user_doc_dir, launcher.rs:127-139
doc_bytes(gt, path) ==
    TextHeaderAndPayload(DocFieldId(gt), encode_utf16(path)) \o <<0>>

\* send_install_dir, launcher.rs:160-171; cwd_wide is encode_wide() of the
\* absolute path
install_bytes(gt, cwd_wide) ==
    TextHeaderAndPayload(InstallFieldId(gt), cwd_wide)

\* send_game_version, launcher.rs:191-202
version_bytes(gt) ==
    TextHeaderAndPayload(VersionFieldId(gt), encode_utf16(APP_NAME \o VersionSuffix))

\* send_disable_cloud, launcher.rs:225-232
cloud_bytes(gt) == U32LE(CloudFieldId(gt))

\* a background-pause value taken from the configuration
bg_pause_bytes_FromConfig(gt) ==
    U32LE(FF8_BG_PAUSE_ENABLED)
        \o U32LE(IF pause_game_on_background THEN 1 ELSE 0)

\* send_bg_pause_enabled, launcher.rs:250-258
bg_pause_bytes(gt) == U32LE(FF8_BG_PAUSE_ENABLED) \o U32LE(1)

\* send_launcher_completed, launcher.rs:272-280
completed_bytes(gt) == U32LE(CompletedFieldId(gt))

\* an early return of send_disable_cloud for both editions of FF7
CloudSkipped_AllFF7(gt) == gt \in {"FF7Standard", "FF7EStore"}

\* the early returns of send_disable_cloud and send_bg_pause_enabled
CloudSkipped(gt) == gt = "FF7EStore"
BgPauseSkipped(gt) == gt \in {"FF7Standard", "FF7EStore"}

\* the text a send function encodes: a String (scalar values), an OsString
\* (wide units), or nothing for a flag message
Str(s) == [kind |-> "str", val |-> s]
Wide(w) == [kind |-> "wide", val |-> w]
NoText == [kind |-> "none", val |-> <<>>]

-----------------------------------------------------------------------------
(* Semaphores: CreateSemaphoreA(None, 0, 1, name), main.rs:195-198, 278-281 *)

SemInitialCount == 0
SemMaxCount == 1

\* ReleaseSemaphore(h, 1, None) fails, and changes nothing, when the count
\* would exceed the maximum
ReleaseFails(count) == count + 1 > SemMaxCount
ReleaseSemaphore(count) == IF ReleaseFails(count) THEN count ELSE count + 1

\* WaitForSingleObject(h, INFINITE) returns once the count is positive, and
\* takes one
Signaled(count) == count > 0
Taken(count) == IF count > 0 THEN count - 1 ELSE count

-----------------------------------------------------------------------------
(* launch_process, main.rs:116-270 *)

\* the version sent before the install directory
StepOrder_Swapped == <<"locale", "save", "doc", "version", "install", "cloud",
                       "bgpause", "completed">>

\* the order of the send calls, main.rs:226-233
StepOrder == <<"locale", "save", "doc", "install", "version", "cloud",
               "bgpause", "completed">>

DriverHandles == {"game_can_read_sem", "game_did_read_sem", "shared_memory",
                  "view_shared_memory"}
ListenerHandles == {"listener_can_read_sem", "listener_did_read_sem"}

\* the handle that main.rs:241-242 opens on launcherCanReadMsgSem
ShutdownHandles == {"launcher_can_read_sem"}
AllHandles == DriverHandles \cup ListenerHandles \cup ShutdownHandles

\* CloseHandle / UnmapViewOfFile on each handle of hs
CloseAll(hs) ==
    /\ handles' = handles \ hs
    /\ closed' = [h \in AllHandles |-> IF h \in hs THEN closed[h] + 1
                                       ELSE closed[h]]

LaunchInit ==
    /\ game_to_launch \in GameTypes
    /\ game_lang \in Langs
    /\ pause_game_on_background \in BOOLEAN
    /\ pc = "setup"
    /\ step = 1
    /\ bytes = <<>>
    /\ text = NoText
    /\ mem = <<>>
    /\ gcan = SemInitialCount
    /\ gdid = SemInitialCount
    /\ lcan = SemInitialCount
    /\ ldid = SemInitialCount
    /\ handles = {}
    /\ chan = 0
    /\ tx_alive = FALSE
    /\ lpc = "none"
    /\ gpc = "none"
    /\ delivered = <<>>
    /\ notified = 0
    /\ answered = 0
    /\ awaiting = FALSE
    /\ closed = [h \in AllHandles |-> 0]
    /\ log = <<>>

\* no second session, no copy under observation
NoSessions == <<>>
NoObjects == <<>>
NoCopy == <<>>
NoCall == <<>>
NoCrash == <<>>
NoBranch == <<>>

Init ==
    /\ LaunchInit
    /\ sess = NoSessions
    /\ named = NoObjects
    /\ cap = NoCopy
    /\ save_call = NoCall
    /\ crash = NoCrash
    /\ branch = NoBranch

\* an Err propagated by `?` out of launch_process: the locals are dropped
\* (thread_kill_tx among them), no handle is closed
ReturnErr ==
    /\ pc' = "error"
    /\ tx_alive' = FALSE
    /\ bytes' = <<>>
    /\ text' = NoText

\* the game process spawned before the listener thread is started
AfterSetup_GameFirst == "spawn_game"

\* what launch_process does once the objects exist: main.rs:218-221
AfterSetup == "spawn_listener"

\* main.rs:195-216: the two semaphores, the mapping and its view
DriverSetup ==
    /\ pc = "setup"
    /\ \/ /\ handles' = handles \cup DriverHandles
          /\ pc' = AfterSetup
          /\ UNCHANGED <<tx_alive, bytes, text>>
       \/ /\ \E made \in {{}, {"game_can_read_sem"},
                          {"game_can_read_sem", "game_did_read_sem"}} :
                handles' = handles \cup made
          /\ ReturnErr
    /\ UNCHANGED <<otherVars, game_to_launch, game_lang, pause_game_on_background, step, mem, gcan, gdid, lcan, ldid,
                   chan, lpc, gpc, delivered, notified, answered, awaiting, closed, log>>

\* main.rs:218-221: the channel and the listener thread
DriverSpawnListener ==
    /\ pc = "spawn_listener"
    /\ tx_alive' = TRUE
    /\ lpc' = "create"
    /\ pc' = "spawn_game"
    /\ UNCHANGED <<otherVars, game_to_launch, game_lang, pause_game_on_background, step, bytes, text, mem, gcan, gdid, lcan,
                   ldid, handles, chan, gpc, delivered, notified, answered, awaiting, closed, log>>

\* main.rs:223: Command::new(process_filename).spawn()?
DriverSpawnGame ==
    /\ pc = "spawn_game"
    /\ \/ /\ gpc' = "wait"
          /\ pc' = "send"
          /\ UNCHANGED <<tx_alive, bytes, text>>
       \/ /\ ReturnErr
          /\ UNCHANGED gpc
    /\ UNCHANGED <<otherVars, game_to_launch, game_lang, pause_game_on_background, step, mem, gcan, gdid, lcan, ldid,
                   handles, chan, lpc, delivered, notified, answered, awaiting, closed, log>>

\* the copy into the mapping that every send function makes of its buffer
CopyToMailbox(b, t) ==
    /\ bytes' = b
    /\ text' = t
    /\ mem' = ptr_copy(mem, b)
    /\ log' = Append(log, <<"write", step>>)
    /\ pc' = "release"
    /\ UNCHANGED <<step, tx_alive>>

\* a send function that returns without writing
SkipStep ==
    /\ pc' = IF step = Len(StepOrder) THEN "wait_exit" ELSE "send"
    /\ step' = step + 1
    /\ UNCHANGED <<bytes, text, mem, log, tx_alive>>

\* an Err of a send function that launch_process drops instead of propagating
FailStep_Ignored ==
    /\ log' = Append(log, <<"err", step>>)
    /\ pc' = "send"
    /\ step' = step + 1
    /\ UNCHANGED <<bytes, text, mem, tx_alive>>

\* a send function that returns an Err, which launch_process propagates
FailStep ==
    /\ ReturnErr
    /\ log' = Append(log, <<"err", step>>)
    /\ UNCHANGED <<step, mem>>

SendUnchanged == <<otherVars, game_to_launch, game_lang, pause_game_on_background, gcan, gdid, lcan, ldid, handles,
                   chan, lpc, gpc, delivered, notified, answered, awaiting, closed>>

\* launcher.rs:38-59
send_locale_data_dir ==
    /\ pc = "send" /\ StepOrder[step] = "locale"
    /\ CopyToMailbox(locale_bytes(game_to_launch, game_lang),
                     Str(LangTag \o game_lang))
    /\ UNCHANGED SendUnchanged

\* launcher.rs:70-114
send_user_save_dir ==
    /\ pc = "send" /\ StepOrder[step] = "save"
    /\ \E music2 \in BOOLEAN, doc \in DocPathResults, cwd \in CurrentDirResults,
          save_exists \in BOOLEAN, listing \in ReadDirResults :
          LET meta == get_game_metadata_path(game_to_launch, music2, doc, cwd)
              payload == user_save_payload(meta, save_exists, listing)
          IN IF payload.ok
             THEN CopyToMailbox(save_bytes(game_to_launch, payload.val),
                                Str(payload.val))
             ELSE FailStep
    /\ UNCHANGED SendUnchanged

\* launcher.rs:126-146
send_user_doc_dir ==
    /\ pc = "send" /\ StepOrder[step] = "doc"
    /\ \E music2 \in BOOLEAN, doc \in DocPathResults, cwd \in CurrentDirResults :
          LET meta == get_game_metadata_path(game_to_launch, music2, doc, cwd)
          IN IF meta.ok
             THEN CopyToMailbox(doc_bytes(game_to_launch, meta.val),
                                Str(meta.val))
             ELSE FailStep
    /\ UNCHANGED SendUnchanged

\* launcher.rs:158-178; std::path::absolute(".") answers the current
\* directory or an error
send_install_dir ==
    /\ pc = "send" /\ StepOrder[step] = "install"
    /\ \E cwd \in CurrentDirResults :
          IF cwd.ok
          THEN CopyToMailbox(install_bytes(game_to_launch, cwd.val),
                             Wide(cwd.val))
          ELSE FailStep
    /\ UNCHANGED SendUnchanged

\* launcher.rs:190-209
send_game_version ==
    /\ pc = "send" /\ StepOrder[step] = "version"
    /\ CopyToMailbox(version_bytes(game_to_launch),
                     Str(APP_NAME \o VersionSuffix))
    /\ UNCHANGED SendUnchanged

\* launcher.rs:220-239
send_disable_cloud ==
    /\ pc = "send" /\ StepOrder[step] = "cloud"
    /\ IF CloudSkipped(game_to_launch)
       THEN SkipStep
       ELSE CopyToMailbox(cloud_bytes(game_to_launch), NoText)
    /\ UNCHANGED SendUnchanged

\* launcher.rs:245-265
send_bg_pause_enabled ==
    /\ pc = "send" /\ StepOrder[step] = "bgpause"
    /\ IF BgPauseSkipped(game_to_launch)
       THEN SkipStep
       ELSE CopyToMailbox(bg_pause_bytes(game_to_launch), NoText)
    /\ UNCHANGED SendUnchanged

\* launcher.rs:271-287
send_launcher_completed ==
    /\ pc = "send" /\ StepOrder[step] = "completed"
    /\ CopyToMailbox(completed_bytes(game_to_launch), NoText)
    /\ UNCHANGED SendUnchanged

\* wait_for_game, launcher.rs:368: _ = ReleaseSemaphore(game_can_read_sem)
WaitForGameRelease ==
    /\ pc = "release"
    /\ gcan' = ReleaseSemaphore(gcan)
    /\ log' = Append(log, <<"release", step>>)
    /\ pc' = "wait"
    /\ UNCHANGED <<otherVars, game_to_launch, game_lang, pause_game_on_background, step, bytes, text, mem, gdid, lcan, ldid,
                   handles, chan, tx_alive, lpc, gpc, delivered, notified, answered, awaiting, closed>>

\* a wait that returns at once
ConsumedObserved_NoWait == TRUE

\* a wait that also returns when the game process has ended
ConsumedObserved_OrGameGone == Signaled(gdid) \/ gpc = "exited"

\* the condition on which WaitForSingleObject(game_did_read_sem, INFINITE)
\* returns, launcher.rs:369
ConsumedObserved == Signaled(gdid)

\* wait_for_game, launcher.rs:369, and the return of the send function
WaitForGameWait ==
    /\ pc = "wait"
    /\ ConsumedObserved
    /\ gdid' = Taken(gdid)
    /\ bytes' = <<>>
    /\ text' = NoText
    /\ log' = Append(log, <<"return", step>>)
    /\ pc' = IF step = Len(StepOrder) THEN "wait_exit" ELSE "send"
    /\ step' = step + 1
    /\ UNCHANGED <<otherVars, game_to_launch, game_lang, pause_game_on_background, mem, gcan, lcan, ldid, handles,
                   chan, tx_alive, lpc, gpc, delivered, notified, answered, awaiting, closed>>

\* main.rs:235: output.wait()?
DriverWaitExit ==
    /\ pc = "wait_exit"
    /\ gpc = "exited"
    /\ \/ /\ pc' = "send_stop"
          /\ UNCHANGED <<tx_alive, bytes, text>>
       \/ ReturnErr
    /\ UNCHANGED <<otherVars, game_to_launch, game_lang, pause_game_on_background, step, mem, gcan, gdid, lcan, ldid,
                   handles, chan, lpc, gpc, delivered, notified, answered, awaiting, closed, log>>

\* main.rs:236: thread_kill_tx.send(())?, an Err once the receiver is gone
DriverSendStop ==
    /\ pc = "send_stop"
    /\ IF lpc \in {"terminated", "panicked"}
       THEN ReturnErr /\ UNCHANGED <<chan, log>>
       ELSE /\ chan' = chan + 1
            /\ log' = Append(log, <<"stop", step>>)
            /\ pc' = "force_release"
            /\ UNCHANGED <<tx_alive, bytes, text>>
    /\ UNCHANGED <<otherVars, game_to_launch, game_lang, pause_game_on_background, step, mem, gcan, gdid, lcan, ldid,
                   handles, lpc, gpc, delivered, notified, answered, awaiting, closed>>

\* main.rs:239-245: a second handle on launcherCanReadMsgSem, and
\* ReleaseSemaphore(launcher_can_read_sem, 1, None)?
DriverForceRelease ==
    /\ pc = "force_release"
    /\ handles' = handles \cup ShutdownHandles
    /\ IF ReleaseFails(lcan)
       THEN ReturnErr /\ UNCHANGED lcan
       ELSE /\ lcan' = ReleaseSemaphore(lcan)
            /\ pc' = "join"
            /\ UNCHANGED <<tx_alive, bytes, text>>
    /\ UNCHANGED <<otherVars, game_to_launch, game_lang, pause_game_on_background, step, mem, gcan, gdid, ldid, chan,
                   lpc, gpc, delivered, notified, answered, awaiting, closed, log>>

\* a join that returns while the listener thread is still running
ListenerFinished_NoJoin == TRUE

\* the condition on which JoinHandle::join returns, main.rs:247-248
ListenerFinished == lpc \in {"terminated", "panicked"}

\* main.rs:247-249: join()?, an Err when the listener thread panicked
DriverJoin ==
    /\ pc = "join"
    /\ ListenerFinished
    /\ IF lpc = "panicked"
       THEN ReturnErr /\ UNCHANGED log
       ELSE /\ pc' = "close"
            /\ log' = Append(log, <<"join", step>>)
            /\ UNCHANGED <<tx_alive, bytes, text>>
    /\ UNCHANGED <<otherVars, game_to_launch, game_lang, pause_game_on_background, step, mem, gcan, gdid, lcan, ldid,
                   handles, chan, lpc, gpc, delivered, notified, answered, awaiting, closed>>

\* main.rs:251-257 and the Ok(()) of main.rs:269
DriverClose ==
    /\ pc = "close"
    /\ CloseAll(DriverHandles \cup ShutdownHandles)
    /\ pc' = "done"
    /\ tx_alive' = FALSE
    /\ UNCHANGED <<otherVars, game_to_launch, game_lang, pause_game_on_background, step, bytes, text, mem, gcan, gdid, lcan,
                   ldid, chan, lpc, gpc, delivered, notified, answered, awaiting, log>>

-----------------------------------------------------------------------------
(* handle_game_messages_thread, main.rs:272-302 *)

\* main.rs:275-281; an Err makes the unwrap() of main.rs:220 panic
ListenerCreate ==
    /\ lpc = "create"
    /\ \/ /\ handles' = handles \cup ListenerHandles
          /\ lpc' = "check"
       \/ /\ lpc' = "panicked"
          /\ UNCHANGED handles
    /\ UNCHANGED <<otherVars, game_to_launch, game_lang, pause_game_on_background, pc, step, bytes, text, mem, gcan, gdid,
                   lcan, ldid, chan, tx_alive, gpc, delivered, notified, answered, awaiting, closed, log>>

\* a stop check that leaves the loop only when the sender is gone
ListenerCheck_DisconnectedOnly ==
    /\ lpc = "check"
    /\ chan' = IF chan > 0 THEN chan - 1 ELSE chan
    /\ lpc' = IF ~tx_alive /\ chan = 0 THEN "close" ELSE "wait"
    /\ UNCHANGED <<otherVars, game_to_launch, game_lang, pause_game_on_background, pc, step, bytes, text, mem, gcan, gdid,
                   lcan, ldid, handles, tx_alive, gpc, delivered, notified, answered, awaiting, closed, log>>

\* main.rs:284-289: thread_kill_rx.try_recv()
ListenerCheck ==
    /\ lpc = "check"
    /\ IF chan > 0
       THEN chan' = chan - 1 /\ lpc' = "close"
       ELSE IF ~tx_alive
            THEN lpc' = "close" /\ UNCHANGED chan
            ELSE lpc' = "wait" /\ UNCHANGED chan
    /\ UNCHANGED <<otherVars, game_to_launch, game_lang, pause_game_on_background, pc, step, bytes, text, mem, gcan, gdid,
                   lcan, ldid, handles, tx_alive, gpc, delivered, notified, answered, awaiting, closed, log>>

\* a wait that the stop signal cancels
ListenerWakes_OnStop == Signaled(lcan) \/ chan > 0

\* a listener that is served by the driver's thread between two sends
ListenerWakes_DriverIdle == Signaled(lcan) /\ pc # "wait"

\* the condition on which the wait of main.rs:292 returns
ListenerWakes == Signaled(lcan)

\* main.rs:292: WaitForSingleObject(launcher_can_read_sem, INFINITE)
ListenerWait ==
    /\ lpc = "wait"
    /\ ListenerWakes
    /\ lcan' = Taken(lcan)
    /\ lpc' = "release"
    /\ UNCHANGED <<otherVars, game_to_launch, game_lang, pause_game_on_background, pc, step, bytes, text, mem, gcan, gdid,
                   ldid, handles, chan, tx_alive, gpc, delivered, notified, answered, awaiting, closed, log>>

\* main.rs:294: _ = ReleaseSemaphore(launcher_did_read_sem, 1, None)
ListenerRelease ==
    /\ lpc = "release"
    /\ ldid' = ReleaseSemaphore(ldid)
    /\ answered' = answered + 1
    /\ lpc' = "check"
    /\ UNCHANGED <<otherVars, game_to_launch, game_lang, pause_game_on_background, pc, step, bytes, text, mem, gcan, gdid,
                   lcan, handles, chan, tx_alive, gpc, delivered, notified, awaiting, closed, log>>

\* main.rs:296-301
ListenerClose ==
    /\ lpc = "close"
    /\ CloseAll(ListenerHandles)
    /\ lpc' = "terminated"
    /\ UNCHANGED <<otherVars, game_to_launch, game_lang, pause_game_on_background, pc, step, bytes, text, mem, gcan, gdid,
                   lcan, ldid, chan, tx_alive, gpc, delivered, notified, answered, awaiting, log>>

-----------------------------------------------------------------------------
(* The game process: the reader of section 4.2 of the protocol, and the    *)
(* sender of the reverse direction of section 4.4                          *)

GameRunning == gpc \in {"wait", "read", "signal"}

\* step 3: the reader observes `ready`
GameWaitReady ==
    /\ gpc = "wait"
    /\ ~awaiting
    /\ Signaled(gcan)
    /\ gcan' = Taken(gcan)
    /\ gpc' = "read"
    /\ UNCHANGED <<otherVars, game_to_launch, game_lang, pause_game_on_background, pc, step, bytes, text, mem, gdid, lcan,
                   ldid, handles, chan, tx_alive, lpc, delivered, notified, answered, awaiting, closed, log>>

\* the field id at the start of the mailbox
MailboxFieldId ==
    FromU32LE([i \in 1..4 |-> IF i <= Len(mem) THEN mem[i] ELSE 0])

\* step 3: the reader reads the message at the fixed offset
GameRead ==
    /\ gpc = "read"
    /\ delivered' = Append(delivered, MailboxFieldId)
    /\ gpc' = "signal"
    /\ UNCHANGED <<otherVars, game_to_launch, game_lang, pause_game_on_background, pc, step, bytes, text, mem, gcan, gdid,
                   lcan, ldid, handles, chan, tx_alive, lpc, notified, answered, awaiting, closed, log>>

\* step 4: the reader signals `consumed`
GameSignalConsumed ==
    /\ gpc = "signal"
    /\ gdid' = ReleaseSemaphore(gdid)
    /\ gpc' = "wait"
    /\ UNCHANGED <<otherVars, game_to_launch, game_lang, pause_game_on_background, pc, step, bytes, text, mem, gcan, lcan,
                   ldid, handles, chan, tx_alive, lpc, delivered, notified, answered, awaiting, closed, log>>

\* the game signals the launcher: it releases launcherCanReadMsgSem
GameNotify ==
    /\ GameRunning
    /\ notified < MaxGameMsgs
    /\ ~awaiting
    /\ ~ReleaseFails(lcan)
    /\ lcan' = ReleaseSemaphore(lcan)
    /\ notified' = notified + 1
    /\ awaiting' \in BOOLEAN
    /\ UNCHANGED <<otherVars, game_to_launch, game_lang, pause_game_on_background, pc, step, bytes, text, mem, gcan, gdid,
                   ldid, handles, chan, tx_alive, lpc, gpc, delivered, answered, closed, log>>

\* the game observes the listener's answer on launcherDidReadMsgSem
GameAwaitDidRead ==
    /\ GameRunning
    /\ Signaled(ldid)
    /\ ldid' = Taken(ldid)
    /\ awaiting' = FALSE
    /\ UNCHANGED <<otherVars, game_to_launch, game_lang, pause_game_on_background, pc, step, bytes, text, mem, gcan, gdid,
                   lcan, handles, chan, tx_alive, lpc, gpc, delivered, notified, answered, closed,
                   log>>

\* the game process ends
GameExit ==
    /\ gpc = "wait"
    /\ gpc' = "exited"
    /\ UNCHANGED <<otherVars, game_to_launch, game_lang, pause_game_on_background, pc, step, bytes, text, mem, gcan, gdid,
                   lcan, ldid, handles, chan, tx_alive, lpc, delivered, notified, answered, awaiting, closed,
                   log>>

-----------------------------------------------------------------------------

Next ==
    \/ DriverSetup
    \/ DriverSpawnListener
    \/ DriverSpawnGame
    \/ send_locale_data_dir
    \/ send_user_save_dir
    \/ send_user_doc_dir
    \/ send_install_dir
    \/ send_game_version
    \/ send_disable_cloud
    \/ send_bg_pause_enabled
    \/ send_launcher_completed
    \/ WaitForGameRelease
    \/ WaitForGameWait
    \/ DriverWaitExit
    \/ DriverSendStop
    \/ DriverForceRelease
    \/ DriverJoin
    \/ DriverClose
    \/ ListenerCreate
    \/ ListenerCheck
    \/ ListenerWait
    \/ ListenerRelease
    \/ ListenerClose
    \/ GameWaitReady
    \/ GameRead
    \/ GameSignalConsumed
    \/ GameNotify
    \/ GameAwaitDidRead
    \/ GameExit

Spec == Init /\ [][Next]_vars

\* the steps of the listener thread and of the game's reader; the operating
\* system schedules every thread that is able to run, and wakes a blocked one
\* once its wait can return
ListenerStep ==
    \/ ListenerCreate \/ ListenerCheck \/ ListenerWait
    \/ ListenerRelease \/ ListenerClose

GameReaderStep == GameWaitReady \/ GameRead \/ GameSignalConsumed

\* the same behaviours with the listener, the game's reader and the driver's
\* wait_for_game scheduled fairly; the game may still end at any time and
\* need not signal the launcher
FairSpec ==
    /\ Spec
    /\ WF_vars(ListenerStep)
    /\ WF_vars(GameReaderStep)
    /\ WF_vars(GameAwaitDidRead)
    /\ WF_vars(WaitForGameWait)

-----------------------------------------------------------------------------
(* The session with a cooperative game and no failure from outside: the    *)
(* system calls that create objects, spawn and wait succeed, the paths     *)
(* resolve, and the game stays until it has read the completion marker.    *)
(* An Err that the state of the session itself brings about (main.rs:236,  *)
(* 244, 249) stays possible.                                                *)

\* the game has read the completion marker
CompletionDelivered ==
    \E i \in 1..Len(delivered) :
        delivered[i] = CompletedFieldId(game_to_launch)

\* a step without an outside failure and without an early exit of the game
Cooperative ==
    /\ lpc' # "panicked"
    /\ pc' = "error" => pc \in {"send_stop", "force_release", "join"}
    /\ (gpc # "exited" /\ gpc' = "exited") => CompletionDelivered

\* the session of Spec, for one language
CoopInit == Init /\ game_lang = <<101, 110>>

\* the session, every step of it cooperative
CoopNext ==
    \/ DriverSetup /\ Cooperative
    \/ DriverSpawnListener /\ Cooperative
    \/ DriverSpawnGame /\ Cooperative
    \/ send_locale_data_dir /\ Cooperative
    \/ send_user_save_dir /\ Cooperative
    \/ send_user_doc_dir /\ Cooperative
    \/ send_install_dir /\ Cooperative
    \/ send_game_version /\ Cooperative
    \/ send_disable_cloud /\ Cooperative
    \/ send_bg_pause_enabled /\ Cooperative
    \/ send_launcher_completed /\ Cooperative
    \/ WaitForGameRelease /\ Cooperative
    \/ WaitForGameWait /\ Cooperative
    \/ DriverWaitExit /\ Cooperative
    \/ DriverSendStop /\ Cooperative
    \/ DriverForceRelease /\ Cooperative
    \/ DriverJoin /\ Cooperative
    \/ DriverClose /\ Cooperative
    \/ ListenerCreate /\ Cooperative
    \/ ListenerCheck /\ Cooperative
    \/ ListenerWait /\ Cooperative
    \/ ListenerRelease /\ Cooperative
    \/ ListenerClose /\ Cooperative
    \/ GameWaitReady /\ Cooperative
    \/ GameRead /\ Cooperative
    \/ GameSignalConsumed /\ Cooperative
    \/ GameNotify /\ Cooperative
    \/ GameAwaitDidRead /\ Cooperative
    \/ GameExit /\ Cooperative

\* a send function returns: past the call of a send function the driver is
\* at its write or its return, never at the call for ever.  A send function
\* can always run and the sequence has eight of them, so this is weak
\* fairness of the send functions.
SendsReturn == []<>(pc # "send")

\* every thread that can run is scheduled: the driver at each of its
\* statements, the listener and the game's reader; the game need not signal
\* the launcher and need not exit
CoopSpec ==
    /\ CoopInit
    /\ [][CoopNext]_vars
    /\ WF_vars(DriverSetup)
    /\ WF_vars(DriverSpawnListener)
    /\ WF_vars(DriverSpawnGame)
    /\ SendsReturn
    /\ WF_vars(WaitForGameRelease)
    /\ WF_vars(WaitForGameWait)
    /\ WF_vars(DriverWaitExit)
    /\ WF_vars(DriverSendStop)
    /\ WF_vars(DriverForceRelease)
    /\ WF_vars(DriverJoin)
    /\ WF_vars(DriverClose)
    /\ WF_vars(ListenerStep)
    /\ WF_vars(GameReaderStep)
    /\ WF_vars(GameAwaitDidRead)

-----------------------------------------------------------------------------
(* Two launcher sessions on one machine.  Each runs launch_process up to   *)
(* the end of its first send; the kernel keeps the named objects, which a  *)
(* CreateSemaphoreA or CreateFileMappingA by name creates or opens.        *)

Sessions == {1, 2}

\* main.rs:56-60
GAME_CAN_READ_MSG_SEM == "_gameCanReadMsgSem"
GAME_DID_READ_MSG_SEM == "_gameDidReadMsgSem"
SHARED_MEMORY_WITH_LAUNCHER_NAME == "_sharedMemoryWithLauncher"

\* a prefix that is the same for every game
name_prefix_Fixed(launch_chocobo, gt) == "ff7"

\* main.rs:184-190
name_prefix(launch_chocobo, gt) ==
    IF launch_chocobo
    THEN "choco"
    ELSE IF gt \in {"FF7Standard", "FF7EStore"} THEN "ff7" ELSE "ff8"

\* main.rs:191-194: name_prefix.to_owned() + SUFFIX
ObjectName(prefix, suffix) == <<prefix, suffix>>

Prefixes == {name_prefix(c, g) : c \in BOOLEAN, g \in GameTypes}
SemSuffixes == {GAME_CAN_READ_MSG_SEM, GAME_DID_READ_MSG_SEM}
AllNames ==
    {ObjectName(p, x) : p \in Prefixes,
                        x \in SemSuffixes \cup {SHARED_MEMORY_WITH_LAUNCHER_NAME}}

\* the names that session s uses
PrefixOf(s) == name_prefix(sess[s].launch_chocobo, sess[s].game_to_launch)
CanReadName(s) == ObjectName(PrefixOf(s), GAME_CAN_READ_MSG_SEM)
DidReadName(s) == ObjectName(PrefixOf(s), GAME_DID_READ_MSG_SEM)
MemoryName(s) == ObjectName(PrefixOf(s), SHARED_MEMORY_WITH_LAUNCHER_NAME)
SessionNames(s) == {CanReadName(s), DidReadName(s), MemoryName(s)}

\* a name that no process has created; a semaphore with the session that
\* released it last; a mapping with the session that wrote it last
Absent == [kind |-> "absent"]
NewSemaphore == [kind |-> "sem", count |-> SemInitialCount, by |-> 0]
NewMapping == [kind |-> "map", data |-> <<>>, by |-> 0]

\* CreateSemaphoreA / CreateFileMappingA by name: the object is created
\* when the name is free, opened otherwise
OpenOrCreate(objects, name, fresh) ==
    IF objects[name] = Absent THEN [objects EXCEPT ![name] = fresh]
    ELSE objects

SessionsInit ==
    /\ LaunchInit
    /\ game_to_launch = "FF8" /\ game_lang = <<101, 110>>
    /\ ~pause_game_on_background
    /\ cap = NoCopy
    /\ save_call = NoCall
    /\ crash = NoCrash
    /\ branch = NoBranch
    /\ named = [n \in AllNames |-> Absent]
    /\ sess \in [Sessions -> [game_to_launch : GameTypes,
                               launch_chocobo : BOOLEAN,
                               game_lang : {<<101, 110>>},
                               pc : {"create"}, gpc : {"none"},
                               took : {0}, read : {0}]]

SessionsUnchanged ==
    <<game_to_launch, game_lang, pause_game_on_background, pc, step, bytes,
      text, mem, gcan, gdid, lcan, ldid, handles, chan, tx_alive, lpc, gpc,
      delivered, notified, answered, awaiting, closed, log, cap, save_call,
      crash, branch>>

\* main.rs:195-210
SessCreate(s) ==
    /\ sess[s].pc = "create"
    /\ named' = OpenOrCreate(
                    OpenOrCreate(
                        OpenOrCreate(named, CanReadName(s), NewSemaphore),
                        DidReadName(s), NewSemaphore),
                    MemoryName(s), NewMapping)
    /\ sess' = [sess EXCEPT ![s].pc = "spawn"]
    /\ UNCHANGED SessionsUnchanged

\* main.rs:223
SessSpawn(s) ==
    /\ sess[s].pc = "spawn"
    /\ sess' = [sess EXCEPT ![s].pc = "write", ![s].gpc = "wait"]
    /\ UNCHANGED <<named, SessionsUnchanged>>

\* send_locale_data_dir, launcher.rs:38-59: the copy into the mapping
SessWrite(s) ==
    /\ sess[s].pc = "write"
    /\ named' = [named EXCEPT ![MemoryName(s)] =
                    [kind |-> "map",
                     data |-> ptr_copy(named[MemoryName(s)].data,
                                       locale_bytes(sess[s].game_to_launch,
                                                    sess[s].game_lang)),
                     by |-> s]]
    /\ sess' = [sess EXCEPT ![s].pc = "release"]
    /\ UNCHANGED SessionsUnchanged

\* wait_for_game, launcher.rs:368
SessRelease(s) ==
    /\ sess[s].pc = "release"
    /\ LET sem == named[CanReadName(s)] IN
          named' = [named EXCEPT ![CanReadName(s)] =
                       [kind |-> "sem",
                        count |-> ReleaseSemaphore(sem.count),
                        by |-> IF ReleaseFails(sem.count) THEN sem.by ELSE s]]
    /\ sess' = [sess EXCEPT ![s].pc = "wait"]
    /\ UNCHANGED SessionsUnchanged

\* wait_for_game, launcher.rs:369
SessWait(s) ==
    /\ sess[s].pc = "wait"
    /\ Signaled(named[DidReadName(s)].count)
    /\ named' = [named EXCEPT ![DidReadName(s)].count = Taken(@)]
    /\ sess' = [sess EXCEPT ![s].pc = "sent"]
    /\ UNCHANGED SessionsUnchanged

\* the game of session s observes `ready` on the name of its edition
SessGameWaitReady(s) ==
    /\ sess[s].gpc = "wait"
    /\ Signaled(named[CanReadName(s)].count)
    /\ named' = [named EXCEPT ![CanReadName(s)].count = Taken(@)]
    /\ sess' = [sess EXCEPT ![s].gpc = "read",
                             ![s].took = named[CanReadName(s)].by]
    /\ UNCHANGED SessionsUnchanged

\* the game of session s reads the mailbox
SessGameRead(s) ==
    /\ sess[s].gpc = "read"
    /\ sess' = [sess EXCEPT ![s].gpc = "signal",
                             ![s].read = named[MemoryName(s)].by]
    /\ UNCHANGED <<named, SessionsUnchanged>>

\* the game of session s signals `consumed`
SessGameSignalConsumed(s) ==
    /\ sess[s].gpc = "signal"
    /\ named' = [named EXCEPT ![DidReadName(s)] =
                    [kind |-> "sem",
                     count |-> ReleaseSemaphore(@.count),
                     by |-> s]]
    /\ sess' = [sess EXCEPT ![s].gpc = "wait"]
    /\ UNCHANGED SessionsUnchanged

SessionsNext ==
    \E s \in Sessions :
        \/ SessCreate(s)
        \/ SessSpawn(s)
        \/ SessWrite(s)
        \/ SessRelease(s)
        \/ SessWait(s)
        \/ SessGameWaitReady(s)
        \/ SessGameRead(s)
        \/ SessGameSignalConsumed(s)

SessionsSpec == SessionsInit /\ [][SessionsNext]_vars

-----------------------------------------------------------------------------
(* The copies of the three path messages into the mapping, by offsets and  *)
(* lengths: a path can have up to 32767 UTF-16 units, too many to keep the *)
(* bytes themselves.                                                       *)

\* CreateFileMappingA(..., 0, 0x20000, name), main.rs:205
MAPPING_SIZE == 131072

\* view_shared_memory.Value.offset(0x10000), main.rs:211
LAUNCHER_PART_OFFSET == 65536

\* the send functions whose payload is a path, in the order of main.rs:227-229
PathSteps == <<"save", "doc", "install">>

\* lengths, in UTF-16 units, that the payload of a path message can have
PathUnits == {3, 40, 259, 4000, 32759, 32764, 32765, 32767}

\* bytes.len() of a path message: field id, length, two bytes per unit, and
\* the bytes.push(0) of send_user_doc_dir
message_len(name, units) ==
    4 + 4 + 2 * units + (IF name = "doc" THEN 1 ELSE 0)

Max(a, b) == IF a >= b THEN a ELSE b

CapacityInit ==
    /\ LaunchInit
    /\ game_to_launch = "FF8" /\ game_lang = <<101, 110>>
    /\ ~pause_game_on_background
    /\ sess = NoSessions
    /\ named = NoObjects
    /\ save_call = NoCall
    /\ crash = NoCrash
    /\ branch = NoBranch
    /\ cap = [pc |-> "send", step |-> 1, len |-> 0, start |-> 0, end |-> 0]

CapacityUnchanged ==
    <<game_to_launch, game_lang, pause_game_on_background, pc, step, bytes,
      text, mem, gcan, gdid, lcan, ldid, handles, chan, tx_alive, lpc, gpc,
      delivered, notified, answered, awaiting, closed, log, sess, named,
      save_call, crash, branch>>

\* launcher.rs:95-107, 127-139, 159-171: the buffer of the message is built
CapBuild ==
    /\ cap.pc = "send"
    /\ \E units \in PathUnits :
          cap' = [cap EXCEPT !.pc = "copy",
                             !.len = message_len(PathSteps[cap.step], units)]
    /\ UNCHANGED CapacityUnchanged

\* std::ptr::copy(bytes.as_ptr(), launcher_memory_part, bytes.len()),
\* launcher.rs:108-114, 140-146, 172-178.  No length is compared with the
\* size of the mapping; a copy that runs past the end of the view is
\* undefined behaviour: it overwrites what follows the view, or it faults at
\* the first page that is not mapped.
CapCopy ==
    /\ cap.pc = "copy"
    /\ LET last == LAUNCHER_PART_OFFSET + cap.len IN
          IF last <= MAPPING_SIZE
          THEN cap' = [cap EXCEPT !.pc = "handshake",
                                  !.start = LAUNCHER_PART_OFFSET,
                                  !.end = Max(cap.end, last)]
          ELSE \/ cap' = [cap EXCEPT !.pc = "handshake",
                                     !.start = LAUNCHER_PART_OFFSET,
                                     !.end = Max(cap.end, last)]
               \/ cap' = [cap EXCEPT !.pc = "fault",
                                     !.start = LAUNCHER_PART_OFFSET,
                                     !.end = MAPPING_SIZE]
    /\ UNCHANGED CapacityUnchanged

\* wait_for_game and the return of the send function
CapHandshake ==
    /\ cap.pc = "handshake"
    /\ cap' = IF cap.step = Len(PathSteps)
              THEN [cap EXCEPT !.pc = "sent"]
              ELSE [cap EXCEPT !.pc = "send", !.step = cap.step + 1]
    /\ UNCHANGED CapacityUnchanged

CapacityNext == CapBuild \/ CapCopy \/ CapHandshake

CapacitySpec == CapacityInit /\ [][CapacityNext]_vars

-----------------------------------------------------------------------------
(* The resolution of the save directory, launcher.rs:70-94, as a function  *)
(* of what the file system answers: the game type, the music_2 marker, the *)
(* documents folder, the current directory, the entry "save" of the        *)
(* current directory and the listing of the metadata directory.            *)

\* listings of the metadata directory: the ones of the session, and ones
\* with two user directories, a user directory listed before another
\* directory, and no user directory among other entries
SaveDirListings ==
    DirListings \cup
    { << [name |-> UserPrefix \o <<49>>, is_dir |-> TRUE],
         [name |-> UserPrefix \o <<50>>, is_dir |-> TRUE] >>,
      << [name |-> UserPrefix \o <<50>>, is_dir |-> TRUE],
         [name |-> <<100, 108, 99>>, is_dir |-> TRUE] >>,
      << [name |-> <<100, 108, 99>>, is_dir |-> TRUE] >> }
SaveDirReadDirResults == {Err} \cup {Ok(l) : l \in SaveDirListings}

SaveDirInit ==
    /\ LaunchInit
    /\ game_to_launch = "FF7Standard" /\ game_lang = <<101, 110>>
    /\ ~pause_game_on_background
    /\ sess = NoSessions
    /\ named = NoObjects
    /\ cap = NoCopy
    /\ crash = NoCrash
    /\ branch = NoBranch
    /\ \E gt \in GameTypes, music2 \in BOOLEAN, doc \in DocPathResults,
          cwd \in CurrentDirResults, save_exists \in BOOLEAN,
          listing \in SaveDirReadDirResults :
          save_call = [pc |-> "metadata", gt |-> gt, music2 |-> music2,
                       doc |-> doc, cwd |-> cwd, save_exists |-> save_exists,
                       listing |-> listing, meta |-> Err, payload |-> Err]

SaveDirUnchanged == <<sessionVars, sess, named, cap, crash, branch>>

\* launcher.rs:71, get_game_metadata_path(ctx)
SaveDirMetadata ==
    /\ save_call.pc = "metadata"
    /\ save_call' =
          [save_call EXCEPT
             !.meta = get_game_metadata_path(save_call.gt, save_call.music2,
                                             save_call.doc, save_call.cwd),
             !.pc = "payload"]
    /\ UNCHANGED SaveDirUnchanged

\* launcher.rs:71-94: the `?` on the metadata path, the entry "save", the
\* listing and its last user directory
SaveDirPayload ==
    /\ save_call.pc = "payload"
    /\ save_call' =
          [save_call EXCEPT
             !.payload = user_save_payload(save_call.meta,
                                           save_call.save_exists,
                                           save_call.listing),
             !.pc = "done"]
    /\ UNCHANGED SaveDirUnchanged

SaveDirNext == SaveDirMetadata \/ SaveDirPayload

SaveDirSpec == SaveDirInit /\ [][SaveDirNext]_vars

-----------------------------------------------------------------------------
(* The unhandled-exception filter, main.rs:62, 96, 304-320.  The process   *)
(* has two threads, the one of main and launch_process and the listener;   *)
(* the system calls the registered filter on the thread that raised an     *)
(* exception nothing else handles.  HAD_EXCEPTION is a `static mut` that   *)
(* the handler reads (305) and writes (311) without synchronisation, so    *)
(* the handler is taken one access at a time.                              *)

Threads == {"main", "listener"}

\* windows::Win32::System::Diagnostics::Debug, imported at main.rs:26
EXCEPTION_CONTINUE_EXECUTION == -1

\* EXCEPTION_RECORD: an access violation and a stack overflow, the code as
\* the i32 of NTSTATUS
ExceptionRecords ==
    { [ExceptionCode |-> -1073741819, ExceptionAddress |-> 4198400],
      [ExceptionCode |-> -1073741571, ExceptionAddress |-> 4202496] }

\* the operations of the handler that can themselves raise: the reads
\* through ep (312) and the two log::error! (306, 313-317)
FaultPoints == {"deref", "log", "relog"}

CrashInit ==
    /\ LaunchInit
    /\ game_to_launch = "FF7Standard" /\ game_lang = <<101, 110>>
    /\ ~pause_game_on_background
    /\ sess = NoSessions
    /\ named = NoObjects
    /\ cap = NoCopy
    /\ save_call = NoCall
    /\ branch = NoBranch
    /\ crash = [proc |-> "running",
                filter |-> TRUE,               \* main.rs:96
                HAD_EXCEPTION |-> FALSE,       \* main.rs:62
                stack |-> [t \in Threads |-> <<>>],
                errlog |-> <<>>,
                returns |-> <<>>]

CrashUnchanged == <<sessionVars, sess, named, cap, save_call, branch>>

\* the invocation thread t is executing, and its position
InHandler(t) == crash.stack[t] # <<>>
Frame(t) == crash.stack[t][Len(crash.stack[t])]
At(t, p) == crash.proc = "running" /\ InHandler(t) /\ Frame(t).pc = p

\* thread t goes on to position p of its invocation
Goto(t, p) ==
    [crash.stack EXCEPT ![t][Len(crash.stack[t])].pc = p]

\* an exception nothing handles: the registered filter is called on the
\* raising thread, and without a filter the system ends the process
Unhandled(t, rec) ==
    IF crash.filter
    THEN crash' = [crash EXCEPT
                     !.stack[t] = Append(@, [pc |-> "check", ep |-> rec])]
    ELSE crash' = [crash EXCEPT !.proc = "terminated"]

\* the code of thread t raises, outside the handler
CrashRaise(t) ==
    /\ crash.proc = "running" /\ ~InHandler(t)
    /\ \E rec \in ExceptionRecords : Unhandled(t, rec)
    /\ UNCHANGED CrashUnchanged

\* an operation of the handler raises
HandlerFault(t) ==
    /\ crash.proc = "running" /\ InHandler(t)
    /\ Frame(t).pc \in FaultPoints
    /\ Len(crash.stack[t]) < MaxNesting
    /\ \E rec \in ExceptionRecords : Unhandled(t, rec)
    /\ UNCHANGED CrashUnchanged

\* main.rs:305, `if HAD_EXCEPTION`
HandlerCheck(t) ==
    /\ At(t, "check")
    /\ crash' = [crash EXCEPT
                   !.stack = Goto(t, IF crash.HAD_EXCEPTION THEN "relog"
                                     ELSE "set")]
    /\ UNCHANGED CrashUnchanged

\* main.rs:306
HandlerRelog(t) ==
    /\ At(t, "relog")
    /\ crash' = [crash EXCEPT !.errlog = Append(@, <<"reentry">>),
                              !.stack = Goto(t, "unregister")]
    /\ UNCHANGED CrashUnchanged

\* main.rs:311
HandlerSet(t) ==
    /\ At(t, "set")
    /\ crash' = [crash EXCEPT !.HAD_EXCEPTION = TRUE,
                              !.stack = Goto(t, "deref")]
    /\ UNCHANGED CrashUnchanged

\* main.rs:312
HandlerDeref(t) ==
    /\ At(t, "deref")
    /\ crash' = [crash EXCEPT !.stack = Goto(t, "log")]
    /\ UNCHANGED CrashUnchanged

\* main.rs:313-317
HandlerLog(t) ==
    /\ At(t, "log")
    /\ crash' = [crash EXCEPT
                   !.errlog = Append(@, <<"exception",
                                          Frame(t).ep.ExceptionCode,
                                          Frame(t).ep.ExceptionAddress>>),
                   !.stack = Goto(t, "unregister")]
    /\ UNCHANGED CrashUnchanged

\* main.rs:307, 318: SetUnhandledExceptionFilter(None)
HandlerUnregister(t) ==
    /\ At(t, "unregister")
    /\ crash' = [crash EXCEPT !.filter = FALSE,
                              !.stack = Goto(t, "return")]
    /\ UNCHANGED CrashUnchanged

\* main.rs:308, 319: the thread goes back to where it raised
HandlerReturn(t) ==
    /\ At(t, "return")
    /\ crash' = [crash EXCEPT
                   !.returns = Append(@, EXCEPTION_CONTINUE_EXECUTION),
                   !.stack[t] = SubSeq(@, 1, Len(@) - 1)]
    /\ UNCHANGED CrashUnchanged

CrashNext ==
    \E t \in Threads :
        \/ CrashRaise(t)
        \/ HandlerFault(t)
        \/ HandlerCheck(t)
        \/ HandlerRelog(t)
        \/ HandlerSet(t)
        \/ HandlerDeref(t)
        \/ HandlerLog(t)
        \/ HandlerUnregister(t)
        \/ HandlerReturn(t)

CrashSpec == CrashInit /\ [][CrashNext]_vars

-----------------------------------------------------------------------------
(* The two branches of launch_process, main.rs:174-267: the session with   *)
(* the handshake, after the preference files, or the bare spawn of a game  *)
(* that FFNx drives.  The session is the one of Spec, entered at its setup. *)

\* a handshake only where FFNx is absent
HandshakeRuns_WithoutFFNxOnly(use_ffnx, launch_chocobo) == ~use_ffnx

\* main.rs:174, `if !ctx.use_ffnx || ctx.config.launch_chocobo`
HandshakeRuns(use_ffnx, launch_chocobo) == ~use_ffnx \/ launch_chocobo

\* launcher.rs:294-297, 327-330: the file names
VideoFile(gt) == IF gt = "FF8" THEN "ff8video.cfg" ELSE "ff7video.cfg"
SoundFile(gt) == IF gt = "FF8" THEN "ff8sound.cfg" ELSE "ff7sound.cfg"

\* the state once the Context is built, main.rs:163-173
BranchInit ==
    /\ LaunchInit
    /\ game_lang = <<101, 110>>
    /\ ~pause_game_on_background
    /\ sess = NoSessions
    /\ named = NoObjects
    /\ cap = NoCopy
    /\ save_call = NoCall
    /\ crash = NoCrash
    /\ \E use_ffnx \in BOOLEAN, launch_chocobo \in BOOLEAN :
          branch = [pc |-> "choose", use_ffnx |-> use_ffnx,
                    launch_chocobo |-> launch_chocobo, files |-> <<>>]

BranchUnchanged == <<sessionVars, sess, named, cap, save_call, crash>>

\* main.rs:174 and 180
BranchChoose ==
    /\ branch.pc = "choose"
    /\ branch' =
          [branch EXCEPT
             !.pc = IF HandshakeRuns(branch.use_ffnx, branch.launch_chocobo)
                    THEN IF ~branch.use_ffnx THEN "video" ELSE "handshake"
                    ELSE "ffnx_spawn"]
    /\ UNCHANGED BranchUnchanged

\* main.rs:181, write_ffvideo(&ctx)?: the file, or an Err of the path
\* resolution or of File::create
BranchWriteVideo ==
    /\ branch.pc = "video"
    /\ \/ branch' = [branch EXCEPT
                        !.files = Append(@, VideoFile(game_to_launch)),
                        !.pc = "sound"]
       \/ branch' = [branch EXCEPT !.pc = "error"]
    /\ UNCHANGED BranchUnchanged

\* main.rs:182, write_ffsound(&ctx)?
BranchWriteSound ==
    /\ branch.pc = "sound"
    /\ \/ branch' = [branch EXCEPT
                        !.files = Append(@, SoundFile(game_to_launch)),
                        !.pc = "handshake"]
       \/ branch' = [branch EXCEPT !.pc = "error"]
    /\ UNCHANGED BranchUnchanged

\* main.rs:184-257: the session
BranchHandshake ==
    /\ branch.pc = "handshake"
    /\ Next

\* main.rs:265, Command::new(process_filename).spawn()?
BranchFFNxSpawn ==
    /\ branch.pc = "ffnx_spawn"
    /\ \/ /\ gpc' = "wait"
          /\ branch' = [branch EXCEPT !.pc = "ffnx_wait"]
       \/ /\ branch' = [branch EXCEPT !.pc = "error"]
          /\ UNCHANGED gpc
    /\ UNCHANGED <<game_to_launch, game_lang, pause_game_on_background, pc,
                   step, bytes, text, mem, gcan, gdid, lcan, ldid, handles,
                   chan, tx_alive, lpc, delivered, notified, answered,
                   awaiting, closed, log, sess, named, cap, save_call, crash>>

\* the game exits, under FFNx
BranchFFNxGameExit ==
    /\ branch.pc = "ffnx_wait"
    /\ GameExit

\* main.rs:267, output.wait()?
BranchFFNxWait ==
    /\ branch.pc = "ffnx_wait"
    /\ gpc = "exited"
    /\ \/ branch' = [branch EXCEPT !.pc = "done"]
       \/ branch' = [branch EXCEPT !.pc = "error"]
    /\ UNCHANGED BranchUnchanged

BranchNext ==
    \/ BranchChoose
    \/ BranchWriteVideo
    \/ BranchWriteSound
    \/ BranchHandshake
    \/ BranchFFNxSpawn
    \/ BranchFFNxGameExit
    \/ BranchFFNxWait

BranchSpec == BranchInit /\ [][BranchNext]_vars

-----------------------------------------------------------------------------
(* Vocabulary of the properties *)

\* the driver is inside wait_for_game, its message written
InFlight == pc \in {"release", "wait"}

\* a text message is in flight
TextInFlight == InFlight /\ text.kind # "none"

\* the entries the driver logged for its i-th send call
EntriesOf(i) == SelectSeq(log, LAMBDA e : e[2] = i)

\* how many entries of one kind the driver logged
Count(kind) == Cardinality({k \in 1..Len(log) : log[k][1] = kind})

\* one complete cycle of the i-th send call
Cycle(i) == << <<"write", i>>, <<"release", i>>, <<"return", i>> >>

IndexOf(name) == CHOOSE i \in 1..Len(StepOrder) : StepOrder[i] = name

IsPrefix(a, b) == Len(a) <= Len(b) /\ SubSeq(b, 1, Len(a)) = a

\* the first n bytes of the mailbox (zero where nothing was written yet)
MailboxPrefix(n) == [i \in 1..n |-> IF i <= Len(mem) THEN mem[i] ELSE 0]

\* n UTF-16LE code units read from byte position `from` of the mailbox
UnitsAt(from, n) ==
    [i \in 1..n |-> MailboxPrefix(from + 2 * n)[from + 2 * i - 2]
                    + 256 * MailboxPrefix(from + 2 * n)[from + 2 * i - 1]]

\* the number of UTF-16 code units of a string of scalar values
RECURSIVE Utf16Len(_)
Utf16Len(str) ==
    IF str = <<>> THEN 0
    ELSE (IF Head(str) >= 65536 THEN 2 ELSE 1) + Utf16Len(Tail(str))

\* the number of UTF-16 code units of the text in flight
TextUnits == IF text.kind = "str" THEN Utf16Len(text.val) ELSE Len(text.val)

\* the payload_len field of the mailbox
DeclaredLen == FromU32LE(SubSeq(MailboxPrefix(8), 5, 8))

\* the units decode to the text in flight
Recovers(units) ==
    IF text.kind = "str"
    THEN WellFormed(units) /\ decode_utf16(units) = text.val
    ELSE units = text.val

\* the field ids by variant and step, as the documentation lists them
FieldIdTable ==
    [ FF7Standard |-> [save |-> 10, doc |-> 11, install |-> 12, locale |-> 13,
                       version |-> 18, cloud |-> 22, completed |-> 24],
      FF7EStore   |-> [save |-> 9, doc |-> 10, install |-> 11, locale |-> 12,
                       version |-> 17, completed |-> 20],
      FF8         |-> [save |-> 9, doc |-> 10, install |-> 11, locale |-> 12,
                       version |-> 17, cloud |-> 21, bgpause |-> 23,
                       completed |-> 24] ]

\* the field ids of a session in the documented order, skipped steps absent
DocumentedOrder ==
    [ FF7Standard |-> <<13, 10, 11, 12, 18, 22, 24>>,
      FF7EStore   |-> <<12, 9, 10, 11, 17, 20>>,
      FF8         |-> <<12, 9, 10, 11, 17, 21, 23, 24>> ]

\* every send call has returned
SendsDone == step > Len(StepOrder)

-----------------------------------------------------------------------------
(* Properties *)

\* C1 (no overlap): whenever the driver writes a message into the mailbox,
\* the game is not between observing `ready` and releasing `consumed`, no
\* `ready` is pending, and every message written before it has been read and
\* its `consumed` awaited by the driver.
C1_NoOverlap ==
    [][ (Len(log') > Len(log) /\ log'[Len(log')][1] = "write")
        => /\ gpc \notin {"read", "signal"}
           /\ gcan = 0
           /\ Len(delivered) = Count("write")
           /\ Count("return") = Count("write") ]_vars

\* C1 witness: a second message has been written after the game read the first
C1_Witness == Count("write") >= 2 /\ Len(delivered) >= 1 /\ pc = "release"

\* C2 (write before signal): whenever `ready` is pending or the game has
\* observed it and is reading, the mailbox starts with the complete buffer of
\* the send call in progress, which was written before `ready` was released
\* and carries the field id of the current step.
C2_WriteBeforeSignal ==
    (gcan > 0 \/ gpc = "read")
    => /\ pc = "wait"
       /\ bytes # <<>>
       /\ Len(mem) >= Len(bytes)
       /\ SubSeq(mem, 1, Len(bytes)) = bytes
       /\ Len(log) >= 2
       /\ log[Len(log) - 1] = <<"write", step>>
       /\ log[Len(log)] = <<"release", step>>
       /\ StepOrder[step] \in DOMAIN FieldIdTable[game_to_launch]
       /\ FromU32LE(MailboxPrefix(4)) = FieldIdTable[game_to_launch][StepOrder[step]]

\* C2 witness: the game is reading the second message
C2_Witness == gpc = "read" /\ step = 2 /\ Len(delivered) = 1

\* C3 (total order, exactly once): the field ids the game has read are a
\* prefix of the documented order of the variant, they are the whole of it
\* once every send call has returned, and the completion marker is then last.
C3_TotalOrder ==
    /\ IsPrefix(delivered, DocumentedOrder[game_to_launch])
    /\ SendsDone =>
          /\ delivered = DocumentedOrder[game_to_launch]
          /\ delivered[Len(delivered)]
                = FieldIdTable[game_to_launch]["completed"]
    /\ Len(delivered) <= Count("release")

\* C3 witness: a finished FF8 session, all 8 messages read
C3_Witness == pc = "done" /\ game_to_launch = "FF8" /\ Len(delivered) = 8

\* C4 (field ids): the message of every send call starts with the field id
\* that the documented table gives for the variant and the step, as a
\* little-endian u32, whatever the language and the paths are.
C4_FieldIds ==
    InFlight
    => /\ StepOrder[step] \in DOMAIN FieldIdTable[game_to_launch]
       /\ SubSeq(bytes, 1, 4)
             = <<FieldIdTable[game_to_launch][StepOrder[step]], 0, 0, 0>>
       /\ MailboxPrefix(4) = SubSeq(bytes, 1, 4)

\* C4 witness: the completion marker of the EStore edition is in flight
C4_Witness ==
    /\ pc = "wait" /\ game_to_launch = "FF7EStore"
    /\ StepOrder[step] = "completed" /\ bytes = <<20, 0, 0, 0>>

\* C5 as stated (payload_len is a byte count): for every text message the
\* payload_len field equals the number of bytes of the UTF-16LE payload, and
\* reading that many bytes as UTF-16LE gives back the text.
C5_LenIsByteCount ==
    TextInFlight
    => /\ DeclaredLen = 2 * TextUnits
       /\ Recovers(UnitsAt(9, DeclaredLen \div 2))

\* C5 as amended (payload_len is a count of UTF-16 code units): for every
\* text message the payload_len field equals the number of UTF-16 code units
\* of the payload, half its byte count, and reading 2 * payload_len bytes
\* after the header as UTF-16LE gives back the text.
C5_LenIsUnitCount ==
    TextInFlight
    => /\ DeclaredLen = TextUnits
       /\ Len(bytes) >= 8 + 2 * DeclaredLen
       /\ Recovers(UnitsAt(9, DeclaredLen))

\* C5 witness: a document path with a scalar value above the BMP is in flight
C5_Witness ==
    /\ pc = "wait" /\ StepOrder[step] = "doc" /\ text.kind = "str"
    /\ \E i \in 1..Len(text.val) : text.val[i] >= 65536
    /\ DeclaredLen > Len(text.val)

\* the bytes of the buffer in flight after its header and encoded payload
Trailing == SubSeq(bytes, 9 + 2 * TextUnits, Len(bytes))

\* C6 as stated (the install directory carries the trailing zero byte): of
\* the text messages, the install-directory message has exactly one zero
\* byte after its payload and the others have none.
C6_NulOnInstallDir ==
    TextInFlight
    => Trailing = IF StepOrder[step] = "install" THEN <<0>> ELSE <<>>

\* C6 as amended (the document directory carries it): of the text messages,
\* the document-directory message (step 3) has exactly one zero byte after
\* its encoded payload and the others, the install directory among them,
\* have none.
C6_NulOnDocDir ==
    TextInFlight
    => Trailing = IF StepOrder[step] = "doc" THEN <<0>> ELSE <<>>

\* C6 witness: a document-directory message with its extra byte is in flight
C6_Witness ==
    /\ pc = "wait" /\ StepOrder[step] = "doc"
    /\ Len(bytes) = 8 + 2 * TextUnits + 1 /\ bytes[Len(bytes)] = 0

\* C7 (background pause): for FF8 the step writes field id 23 and the u32 1
\* and runs one handshake, whatever pause_game_on_background is; for FF7 the
\* step writes nothing and neither releases nor waits.
C7_BgPause ==
    /\ (InFlight /\ StepOrder[step] = "bgpause")
          => /\ game_to_launch = "FF8"
             /\ bytes = <<23, 0, 0, 0, 1, 0, 0, 0>>
             /\ MailboxPrefix(8) = bytes
    /\ game_to_launch # "FF8" => EntriesOf(IndexOf("bgpause")) = <<>>
    /\ (game_to_launch = "FF8" /\ step > IndexOf("bgpause"))
          => EntriesOf(IndexOf("bgpause")) = Cycle(IndexOf("bgpause"))

\* C7 witness: FF8 with pause_game_on_background off, the message in flight
C7_Witness ==
    /\ game_to_launch = "FF8" /\ ~pause_game_on_background
    /\ pc = "wait" /\ StepOrder[step] = "bgpause"

\* C8 (cloud disable): the step is skipped for the EStore edition only; for
\* the other variants it writes the 4 bytes of the field id and runs one
\* handshake; a session whose sends are done ran 8 cycles for FF8, 7 for FF7
\* standard and 6 for FF7 EStore.
C8_CloudAndCycles ==
    /\ (InFlight /\ StepOrder[step] = "cloud")
          => /\ game_to_launch # "FF7EStore"
             /\ Len(bytes) = 4
    /\ game_to_launch = "FF7EStore" => EntriesOf(IndexOf("cloud")) = <<>>
    /\ (game_to_launch # "FF7EStore" /\ step > IndexOf("cloud"))
          => EntriesOf(IndexOf("cloud")) = Cycle(IndexOf("cloud"))
    /\ SendsDone =>
          LET cycles == CASE game_to_launch = "FF8" -> 8
                          [] game_to_launch = "FF7Standard" -> 7
                          [] game_to_launch = "FF7EStore" -> 6
          IN /\ Count("write") = cycles
             /\ Count("release") = cycles
             /\ Count("return") = cycles
             /\ Len(delivered) = cycles

\* C8 witness: a finished EStore session with its 6 cycles
C8_Witness ==
    pc = "done" /\ game_to_launch = "FF7EStore" /\ Count("return") = 6

\* C9 (path resolution failure): once a send call of steps 2-4 has failed,
\* launch_process has returned the error, nothing was written or released
\* for that step or a later one, and every earlier step has had exactly one
\* write, one release and one return, its message read by the game.
C9_PathFailure ==
    \A k \in 1..Len(log) :
        log[k][1] = "err"
        => LET j == log[k][2] IN
           /\ pc = "error"
           /\ j \in 2..4 /\ step = j
           /\ k = Len(log) /\ Len(log) = 3 * (j - 1) + 1
           /\ \A i \in 1..(j - 1) : EntriesOf(i) = Cycle(i)
           /\ delivered = SubSeq(DocumentedOrder[game_to_launch], 1, j - 1)
           /\ gcan = 0
           /\ FromU32LE(MailboxPrefix(4)) = delivered[j - 1]

\* C9 witness: the install directory could not be resolved, 3 messages read
C9_Witness ==
    /\ pc = "error" /\ step = 4 /\ Len(delivered) = 3
    /\ log[Len(log)] = <<"err", 4>>

\* C10 (releases tolerate the maximum count): no release of a semaphore that
\* is at its maximum count ends the session in an error; in particular the
\* forced release of launcherCanReadMsgSem at shutdown goes on to the join.
C10_ReleaseTolerant ==
    [][ /\ (pc = "force_release" /\ lcan >= SemMaxCount) => pc' = "join"
        /\ (pc = "release" /\ gcan >= SemMaxCount) => pc' # "error"
        /\ (lpc = "release" /\ ldid >= SemMaxCount) => lpc' # "panicked" ]_vars

-----------------------------------------------------------------------------
(* The listener and the shutdown of a session *)

LoopStates == {"check", "wait", "release"}
StopObserved == lpc \in {"close", "terminated"}
StopSent == \E k \in 1..Len(log) : log[k][1] = "stop"
Joined == \E k \in 1..Len(log) : log[k][1] = "join"

C12_ListenerShutdown ==
    /\ [][(chan > 0 /\ lpc = "check") => lpc' \in {"check", "close"}]_vars
    /\ [](lpc = "terminated"
            => /\ handles \cap ListenerHandles = {}
               /\ \A h \in ListenerHandles : closed[h] = 1)
    /\ (StopSent /\ lpc \in LoopStates /\ (lpc = "wait" => Signaled(lcan)))
          ~> (lpc = "terminated")

\* C12 witness: the listener was in its loop when the stop signal was sent,
\* answered the forced release (one further iteration) and has terminated
C12_Witness ==
    /\ StopSent /\ lpc = "terminated"
    /\ answered = notified + 1
    /\ handles \cap ListenerHandles = {}

C14_NoLeak ==
    (pc \in {"done", "error"} /\ lpc \in {"none", "terminated", "panicked"})
        => handles = {}

\* C16 (no timeout): the driver leaves wait_for_game only by taking a
\* `consumed` that the game released; while `consumed` is not released it
\* stays in the wait of the same step; and while it is in that wait no later
\* message has been written, no stop signal was sent and no handle released.
C16_NoTimeout ==
    /\ [][(pc = "wait" /\ ~Signaled(gdid)) => (pc' = "wait" /\ step' = step)]_vars
    /\ [][(pc = "wait" /\ pc' # "wait") => gdid' = gdid - 1]_vars
    /\ [](pc = "wait"
            => /\ \A k \in 1..Len(log) : log[k][2] <= step
               /\ ~StopSent /\ chan = 0
               /\ \A h \in AllHandles : closed[h] = 0)

\* C16 witness: the game ended without consuming message 3; the driver is
\* blocked in wait_for_game of step 3
C16_Witness ==
    /\ pc = "wait" /\ step = 3 /\ gpc = "exited"
    /\ gcan = 1 /\ gdid = 0 /\ Len(delivered) = 2

\* C17 (single in-flight message): the counts of game_can_read_sem and
\* game_did_read_sem are 0 or 1 and never both 1, and the release of `ready`
\* in wait_for_game finds its count at 0, below the maximum.
C17_SingleInFlight ==
    /\ gcan \in {0, 1} /\ gdid \in {0, 1}
    /\ ~(gcan = 1 /\ gdid = 1)
    /\ pc = "release" => (gcan = 0 /\ ~ReleaseFails(gcan))

\* C17 witness: the driver is about to release `ready` for the last message
C17_Witness ==
    pc = "release" /\ step = Len(StepOrder) /\ gcan = 0 /\ Len(delivered) >= 5

\* C18 (the stop is seen only at the check): the listener leaves its loop
\* only from the stop check, on a stop message or a dropped sender; while it
\* is in its wait and launcherCanReadMsgSem is not signalled it stays in the
\* wait, whether or not the stop signal was sent.
C18_StopOnlyAtCheck ==
    /\ [][(lpc \in LoopStates /\ lpc' \notin LoopStates)
            => (lpc = "check" /\ lpc' = "close" /\ (chan > 0 \/ ~tx_alive))]_vars
    /\ [][(lpc = "wait" /\ ~Signaled(lcan)) => lpc' = "wait"]_vars

\* C18 witness: the stop signal is queued, the listener is blocked in its
\* wait and launcherCanReadMsgSem is not signalled
C18_Witness == lpc = "wait" /\ chan > 0 /\ StopSent /\ lcan = 0

\* the step that spawns the game process
GameSpawned == gpc = "none" /\ gpc' # "none"

\* C19 as stated (setup ordering): when the game process is spawned the
\* mapping, its view, both semaphore pairs and the listener exist; nothing
\* is written to the mailbox before the game is spawned.
C19_SetupOrder ==
    /\ [][GameSpawned
            => /\ {"game_can_read_sem", "game_did_read_sem", "shared_memory",
                   "view_shared_memory", "listener_can_read_sem",
                   "listener_did_read_sem"} \subseteq handles
               /\ lpc # "none"]_vars
    /\ [][mem' # mem => gpc # "none"]_vars

\* C19 amended (setup ordering): when the game process is spawned the
\* mapping, its view and the outbound semaphore pair exist and the listener
\* thread has been started; the inbound pair is created by the listener
\* thread itself, before it enters its loop; nothing is written to the
\* mailbox before the game is spawned.
C19_DriverSetupOrder ==
    /\ [][GameSpawned
            => /\ {"game_can_read_sem", "game_did_read_sem", "shared_memory",
                   "view_shared_memory"} \subseteq handles
               /\ lpc # "none"]_vars
    /\ [][(handles' \cap ListenerHandles) # (handles \cap ListenerHandles)
            => \/ lpc = "create" /\ lpc' = "check"
               \/ lpc = "close" /\ lpc' = "terminated"]_vars
    /\ [][mem' # mem => gpc # "none"]_vars

\* C19 witness: the game is running and the driver has written the first
\* message while the listener has not yet created the inbound pair
C19_Witness ==
    /\ pc = "release" /\ step = 1 /\ gpc = "wait" /\ lpc = "create"
    /\ handles \cap ListenerHandles = {}

-----------------------------------------------------------------------------
(* Two sessions *)

\* the named objects that session s has created or opened
Opened(s) == IF sess[s].pc = "create" THEN {} ELSE SessionNames(s)

\* the game that a session launches, as the objects are documented to be
\* named for: the chocobo game, Final Fantasy VII or Final Fantasy VIII
Variant(s) ==
    IF sess[s].launch_chocobo THEN "chocobo"
    ELSE IF sess[s].game_to_launch = "FF8" THEN "FF8" ELSE "FF7"

\* the game of s has consumed no `ready` and read no message but its own
\* launcher's
OwnMessagesOnly(s) == sess[s].took \in {0, s} /\ sess[s].read \in {0, s}

\* C15 as stated (session isolation): two concurrent sessions never have
\* the same named object open, the game of a session consumes only the
\* `ready` of its own launcher and reads only what its own launcher wrote.
C15_SessionIsolation ==
    \A s \in Sessions, t \in Sessions :
        s # t => /\ Opened(s) \cap Opened(t) = {}
                 /\ OwnMessagesOnly(s)

\* C15 amended (isolation by variant): two concurrent sessions that launch
\* different games (chocobo, FF7, FF8) never have the same named object
\* open, and their games consume and read only what their own launcher
\* released and wrote; two sessions that launch the same game have the same
\* three names open.
C15_IsolationByVariant ==
    \A s \in Sessions, t \in Sessions :
        s # t =>
          IF Variant(s) # Variant(t)
          THEN /\ Opened(s) \cap Opened(t) = {}
               /\ OwnMessagesOnly(s)
          ELSE (Opened(s) # {} /\ Opened(t) # {}) => Opened(s) = Opened(t)

\* C15 witness: an FF7 session and an FF8 session run side by side and each
\* game has read the message of its own launcher
C15_Witness ==
    /\ Variant(1) = "FF7" /\ Variant(2) = "FF8"
    /\ sess[1].read = 1 /\ sess[2].read = 2
    /\ sess[1].pc = "sent" /\ sess[2].pc = "wait"

-----------------------------------------------------------------------------
(* Capacity of the mailbox *)

\* C20 (capacity): every message is written from offset 65536 of the
\* 131072-byte mapping, no byte is ever written past the end of the
\* mapping, and a message longer than the 65536 bytes after the offset is
\* never copied and handed to the game: the send fails first.
C20_FailFast ==
    /\ cap.pc \in {"handshake", "fault"} => cap.start = 65536
    /\ cap.end <= 131072
    /\ cap.pc = "handshake" => cap.len <= 65536

-----------------------------------------------------------------------------
(* The save directory *)

\* the positions of the user directories of the listing under resolution
UserDirs ==
    IF save_call.listing.ok
    THEN {i \in 1..Len(save_call.listing.val) :
            /\ save_call.listing.val[i].is_dir
            /\ StartsWith(save_call.listing.val[i].name, UserPrefix)}
    ELSE {}

\* the highest of a non-empty set of positions
Highest(S) == CHOOSE i \in S : \A j \in S : j <= i

SaveDirDone == save_call # NoCall /\ save_call.pc = "done"

\* C21 as stated: the payload is the metadata path with the name of a
\* discovered user directory appended when one is present, and with the
\* suffix "\save" appended otherwise.
C21_UserDirElseSave ==
    (SaveDirDone /\ save_call.payload.ok) =>
        IF UserDirs # {}
        THEN \E i \in UserDirs :
                save_call.payload.val =
                    save_call.meta.val \o Backslash
                        \o save_call.listing.val[i].name
        ELSE save_call.payload.val = save_call.meta.val \o SaveSuffix

\* C21 (save directory payload), amended: an entry "save" in the current
\* directory comes first and gives the metadata path followed by "\save",
\* whether or not a user directory is present; without it the payload is
\* the metadata path followed by a backslash and the name of the last
\* listed user directory, the metadata path alone when there is none, and
\* the send fails when the directory cannot be listed or the metadata path
\* cannot be resolved.
C21_SaveFirstElseUserDir ==
    SaveDirDone =>
        IF ~save_call.meta.ok THEN save_call.payload = Err
        ELSE IF save_call.save_exists
             THEN save_call.payload = Ok(save_call.meta.val \o SaveSuffix)
        ELSE IF ~save_call.listing.ok THEN save_call.payload = Err
        ELSE IF UserDirs # {}
             THEN save_call.payload =
                    Ok(save_call.meta.val \o Backslash
                        \o save_call.listing.val[Highest(UserDirs)].name)
        ELSE save_call.payload = Ok(save_call.meta.val)

\* an entry "save" and two user directories: the payload ends with "\save"
C21_Witness ==
    /\ SaveDirDone
    /\ save_call.save_exists
    /\ Cardinality(UserDirs) = 2
    /\ save_call.payload = Ok(save_call.meta.val \o SaveSuffix)

-----------------------------------------------------------------------------
(* The crash handler *)

\* the lines of the error log that carry an exception code and address
ExceptionLines ==
    {i \in 1..Len(crash.errlog) : crash.errlog[i][1] = "exception"}

\* some invocation has gone past the test of the flag as a first invocation
FirstInvocationPassed ==
    \/ crash.errlog # <<>>
    \/ crash.returns # <<>>
    \/ \E t \in Threads : \E i \in 1..Len(crash.stack[t]) :
          crash.stack[t][i].pc \notin {"check", "set"}

\* C22 (crash handler): over any invocations of exception_handler the
\* flag HAD_EXCEPTION is set by the first invocation and never reset, the
\* exception code and address are logged at most once per process, and
\* every invocation has unregistered the filter when it returns, and
\* returns EXCEPTION_CONTINUE_EXECUTION.
C22_CrashHandler ==
    /\ [](FirstInvocationPassed => crash.HAD_EXCEPTION)
    /\ [][crash.HAD_EXCEPTION => crash'.HAD_EXCEPTION]_vars
    /\ [](Cardinality(ExceptionLines) <= 1)
    /\ [](\A t \in Threads : At(t, "return") => ~crash.filter)
    /\ [](\A i \in 1..Len(crash.returns) :
            crash.returns[i] = EXCEPTION_CONTINUE_EXECUTION)

-----------------------------------------------------------------------------
(* The listener and the life of the game process *)

\* the listener observes a stop, a message or a disconnection, and leaves
\* its loop
LeavesLoop == lpc = "check" /\ lpc' = "close"

LeaveLoopAfterExit == LeavesLoop => ~GameRunning

\* C23 (the listener outlives the game): in every execution of
\* launch_process, those where a send step or the spawn fails included, the
\* listener does not observe a stop and leave its loop while the spawned
\* game process is still running.
C23_StopAfterGameExit == [][LeaveLoopAfterExit]_vars

-----------------------------------------------------------------------------
(* The branch of launch_process *)

\* FFNx is in use and the chocobo executable is not the one launched
FFNxDrives == branch.use_ffnx /\ ~branch.launch_chocobo

\* launch_process has created no object, started no listener and written
\* no message
NothingOfTheHandshake ==
    /\ handles = {}
    /\ lpc = "none"
    /\ ~tx_alive /\ chan = 0
    /\ mem = <<>> /\ bytes = <<>>
    /\ log = <<>>
    /\ pc = "setup"

\* C25 (which branch runs): the handshake runs if and only if FFNx is not
\* in use or the chocobo executable is launched; when FFNx drives the game
\* launch_process creates no semaphore and no mailbox, starts no listener
\* and writes no message, and only spawns the game and waits for it; the
\* video and sound preference files are written only when FFNx is not in
\* use, and both before any named object is created.
C25_BranchOfLaunch ==
    /\ FFNxDrives =>
          /\ NothingOfTheHandshake
          /\ branch.pc \in {"choose", "ffnx_spawn", "ffnx_wait", "done", "error"}
    /\ ~FFNxDrives =>
          /\ branch.pc \in {"choose", "video", "sound", "handshake", "error"}
          /\ gpc # "none" => branch.pc = "handshake"
    /\ branch.files # <<>> => ~branch.use_ffnx
    /\ branch.pc \in {"choose", "video", "sound"} => NothingOfTheHandshake
    /\ (branch.pc = "handshake" /\ ~branch.use_ffnx) =>
          branch.files = <<VideoFile(game_to_launch), SoundFile(game_to_launch)>>
    /\ ~NothingOfTheHandshake => branch.pc = "handshake"

\* under FFNx the game has been spawned, has exited and launch_process has
\* returned, with nothing of the handshake
C25_Witness ==
    /\ FFNxDrives
    /\ branch.pc = "done"
    /\ gpc = "exited"
    /\ NothingOfTheHandshake
    /\ branch.files = <<>>

-----------------------------------------------------------------------------
(* Progress of the session with a cooperative game *)

\* step k of the sequence is behind the driver
StepCompleted(k) == step > k

\* launch_process has sent the stop signal, joined the listener and
\* returned
ShutDown == StopSent /\ Joined /\ pc = "done"

\* C24 (deadlock freedom with a cooperative game): under fair scheduling,
\* with a game that waits on `ready`, reads and releases `consumed` for
\* every message, and with paths that resolve, the driver eventually
\* completes every step of the sequence, the completion marker is
\* eventually delivered, and after the game has exited launch_process
\* eventually sends the stop signal, joins the listener and returns.
C24_DeadlockFree ==
    /\ \A k \in 1..Len(StepOrder) :
          (pc = "send" /\ step = k) ~> StepCompleted(k)
    /\ (pc = "setup") ~> CompletionDelivered
    /\ (gpc = "exited") ~> ShutDown

====
